---- MODULE Spec2Model ----
(***************************************************************************)
(* Gradebook manager (logic.py): Assignment, Course, DataManager and       *)
(* GradeCalculator, with the two CSV stores modelled as sequences of text  *)
(* lines.  A text is a sequence of tokens; a token is one character, or    *)
(* one word without CSV special characters ("HW1", "course_id").           *)
(***************************************************************************)
EXTENDS Integers, Sequences, FiniteSets, TLC

VARIABLES
    courses,          \* GradeCalculator.courses: list of references to Course objects
    heap,             \* the Course objects of the running process, by reference
    coursesFile,      \* courses.csv: sequence of lines
    assignmentsFile,  \* assignments.csv: sequence of lines
    result,           \* outcome of the last call on the GradeCalculator
    parked            \* the GradeCalculator instances of the other processes

vars == <<courses, heap, coursesFile, assignmentsFile, result, parked>>


(*************************** bounds of the model ***************************)
MaxCourseObjs == 2    \* Course objects alive in one process
MaxAsgObjs == 2       \* Assignment objects held by the Course objects of one process
MaxId == 2            \* largest course id / assignment id generated

(***************************** small helpers *******************************)
Range(s) == {s[i] : i \in 1..Len(s)}

RECURSIVE SetMax(_)
SetMax(S) ==
    IF S = {} THEN 0
    ELSE LET x == CHOOSE y \in S : TRUE
             m == SetMax(S \ {x})
         IN IF x > m THEN x ELSE m

\* max(list, default=0), logic.py lines 307 and 345
MaxDefault0(s) == SetMax(Range(s))

RECURSIVE Flatten(_)
Flatten(ss) == IF ss = <<>> THEN <<>> ELSE Head(ss) \o Flatten(Tail(ss))

\* the list without its k-th element
RemoveAt(s, k) == SubSeq(s, 1, k - 1) \o SubSeq(s, k + 1, Len(s))

\* a removal that drops the last element whatever x is
RemoveFirst_last(s, x) == SubSeq(s, 1, Len(s) - 1)

\* list.remove(x): the list without the first element equal to x
RECURSIVE RemoveFirst(_, _)
RemoveFirst(s, x) ==
    IF s = <<>> THEN <<>>
    ELSE IF Head(s) = x THEN Tail(s)
    ELSE <<Head(s)>> \o RemoveFirst(Tail(s), x)

(************************ str(), int(), float() ****************************)
DigitTok == <<"0", "1", "2", "3", "4", "5", "6", "7", "8", "9">>
IsDigit(t) == \E d \in 1..10 : DigitTok[d] = t
DigitVal(t) == (CHOOSE d \in 1..10 : DigitTok[d] = t) - 1

RECURSIVE NatToText(_)
NatToText(n) ==
    IF n < 10 THEN <<DigitTok[n + 1]>>
    ELSE NatToText(n \div 10) \o <<DigitTok[(n % 10) + 1]>>

\* str(int)
IntToText(n) == IF n < 0 THEN <<"-">> \o NatToText(-n) ELSE NatToText(n)

\* A number is [isInt, h]: h is twice its value, so that halves (8.5) exist;
\* isInt tells a Python int (8) from a Python float (8.0).
Int_(v) == [isInt |-> TRUE, h |-> 2 * v]
Float_(h) == [isInt |-> FALSE, h |-> h]
Abs(x) == IF x < 0 THEN -x ELSE x

\* str(score): "8" for the int 8, "8.0" for the float 8.0, "8.5" for 8.5
NumToText(x) ==
    IF x.isInt THEN IntToText(x.h \div 2)
    ELSE (IF x.h < 0 THEN <<"-">> ELSE <<>>)
         \o NatToText(Abs(x.h) \div 2)
         \o <<".">>
         \o (IF Abs(x.h) % 2 = 1 THEN <<"5">> ELSE <<"0">>)

NoneVal == <<"<None>">>     \* DictReader's value for a missing column
BadInt == -1                \* int() raised ValueError / TypeError
BadNum == [isInt |-> FALSE, h |-> -1, bad |-> TRUE]   \* float() raised

IsNatText(t) == Len(t) >= 1 /\ \A i \in 1..Len(t) : IsDigit(t[i])

RECURSIVE ParseNat(_)
ParseNat(t) ==
    IF Len(t) = 1 THEN DigitVal(t[1])
    ELSE 10 * ParseNat(SubSeq(t, 1, Len(t) - 1)) + DigitVal(t[Len(t)])

\* int(text); ids are never negative in a file the program wrote
ParseInt(t) == IF IsNatText(t) THEN ParseNat(t) ELSE BadInt

DotPos(t) == IF \E i \in 1..Len(t) : t[i] = "."
             THEN CHOOSE i \in 1..Len(t) : t[i] = "." /\ \A j \in 1..(i - 1) : t[j] # "."
             ELSE 0

\* float(text): "8" -> 8.0, "8.0" -> 8.0, "8.5" -> 8.5; always a float
ParseFloat(t) ==
    LET neg == Len(t) >= 1 /\ t[1] = "-"
        u == IF neg THEN Tail(t) ELSE t
        p == DotPos(u)
        ip == IF p = 0 THEN u ELSE SubSeq(u, 1, p - 1)
        fp == IF p = 0 THEN <<"0">> ELSE SubSeq(u, p + 1, Len(u))
        ok == IsNatText(ip) /\ fp \in {<<"0">>, <<"5">>}
        mag == 2 * ParseNat(ip) + (IF fp = <<"5">> THEN 1 ELSE 0)
    IN IF ok THEN Float_(IF neg THEN -mag ELSE mag) ELSE BadNum

\* Python's == on numbers compares values, not types: 8 == 8.0
NumEq(x, y) == x.h = y.h

(******************************* str.strip() *******************************)
RECURSIVE LStrip(_)
LStrip(s) == IF s # <<>> /\ Head(s) = " " THEN LStrip(Tail(s)) ELSE s

RECURSIVE RStrip(_)
RStrip(s) == IF s # <<>> /\ s[Len(s)] = " " THEN RStrip(SubSeq(s, 1, Len(s) - 1)) ELSE s

Strip(s) == RStrip(LStrip(s))

(************************** csv.writer / csv.reader ************************)
NeedsQuote(f) == \E i \in 1..Len(f) : f[i] \in {",", "\""}

RECURSIVE DoubleQuotes(_)
DoubleQuotes(f) ==
    IF f = <<>> THEN <<>>
    ELSE (IF Head(f) = "\"" THEN <<"\"", "\"">> ELSE <<Head(f)>>) \o DoubleQuotes(Tail(f))

\* a writer that never quotes
QuoteField_never(f) == f

\* QUOTE_MINIMAL: a field is quoted only when it holds a delimiter or a quote
QuoteField(f) ==
    IF NeedsQuote(f) THEN <<"\"">> \o DoubleQuotes(f) \o <<"\"">> ELSE f

\* writer.writerow(fields): the line without its terminator
RECURSIVE WriteRow(_)
WriteRow(fields) ==
    IF Len(fields) = 1 THEN QuoteField(fields[1])
    ELSE QuoteField(Head(fields)) \o <<",">> \o WriteRow(Tail(fields))

\* csv.reader on one line.  st is the parser state: "start" (start of a
\* field), "in" (unquoted field), "q" (quoted field), "qq" (quote seen inside
\* a quoted field).
RECURSIVE ReadFrom(_, _, _, _, _)
ReadFrom(line, i, st, cur, acc) ==
    IF i > Len(line) THEN Append(acc, cur)
    ELSE LET c == line[i] IN
         CASE st = "start" /\ c = "\"" -> ReadFrom(line, i + 1, "q", cur, acc)
           [] st \in {"start", "in", "qq"} /\ c = "," ->
                  ReadFrom(line, i + 1, "start", <<>>, Append(acc, cur))
           [] st \in {"start", "in"} /\ c # "," /\ ~(st = "start" /\ c = "\"") ->
                  ReadFrom(line, i + 1, "in", Append(cur, c), acc)
           [] st = "q" /\ c = "\"" -> ReadFrom(line, i + 1, "qq", cur, acc)
           [] st = "q" /\ c # "\"" -> ReadFrom(line, i + 1, "q", Append(cur, c), acc)
           [] st = "qq" /\ c = "\"" -> ReadFrom(line, i + 1, "q", Append(cur, c), acc)
           [] st = "qq" /\ c \notin {"\"", ","} ->
                  ReadFrom(line, i + 1, "in", Append(cur, c), acc)

ReadRow(line) == IF line = <<>> THEN <<>> ELSE ReadFrom(line, 1, "start", <<>>, <<>>)

\* row[key] of csv.DictReader: the column named key in the header line
DictGet(fieldnames, row, key) ==
    IF \E i \in 1..Len(fieldnames) : fieldnames[i] = <<key>> /\ i <= Len(row)
    THEN row[CHOOSE i \in 1..Len(fieldnames) : fieldnames[i] = <<key>> /\ i <= Len(row)]
    ELSE NoneVal

\* the data rows a DictReader yields: the lines after the header, empty
\* lines skipped
RECURSIVE DataRows(_)
DataRows(lines) ==
    IF lines = <<>> THEN <<>>
    ELSE (IF ReadRow(Head(lines)) = <<>> THEN <<>> ELSE <<ReadRow(Head(lines))>>)
         \o DataRows(Tail(lines))

DictRows(file) == IF file = <<>> THEN <<>> ELSE DataRows(Tail(file))
FieldNames(file) == IF file = <<>> THEN <<>> ELSE ReadRow(Head(file))

(****************************** Assignment *********************************)
Assignment(assignment_id, course_id, name, score, max_points) ==
    [assignment_id |-> assignment_id, course_id |-> course_id,
     name |-> name, score |-> score, max_points |-> max_points]

\* A percentage is the exact ratio n/d (d > 0) of the float the code computes
Pct(n, d) == [n |-> n, d |-> d]
PctGE(p, k) == p.n >= k * p.d

\* Assignment.get_percentage
get_percentage(a) ==
    IF a.max_points.h = 0 THEN Pct(0, 1)
    ELSE Pct(a.score.h * 100, a.max_points.h)

(******************************** Course ***********************************)
Course(course_id, name) == [course_id |-> course_id, name |-> name, assignments |-> <<>>]

\* an insertion at the front of the list
add_assignment_front(c, a) == [c EXCEPT !.assignments = <<a>> \o @]

\* Course.add_assignment
add_assignment(c, a) == [c EXCEPT !.assignments = Append(@, a)]

\* a removal of the last element of the list when the object is in it
remove_assignment_last(c, k) ==
    IF k \in 1..Len(c.assignments)
    THEN [c EXCEPT !.assignments = SubSeq(@, 1, Len(@) - 1)]
    ELSE c

\* Course.remove_assignment.  Assignment defines no __eq__, so "in" and
\* list.remove compare by identity: k is the position of the object in the
\* list, 0 when the object is not in it.
remove_assignment(c, k) ==
    IF k \in 1..Len(c.assignments)
    THEN [c EXCEPT !.assignments = RemoveAt(@, k)]
    ELSE c

RECURSIVE SumH(_)
SumH(nums) == IF nums = <<>> THEN 0 ELSE Head(nums).h + SumH(Tail(nums))

\* the mean of the assignments' percentages instead of the ratio of the sums
RECURSIVE SumPcts(_)
SumPcts(as) ==
    IF as = <<>> THEN Pct(0, 1)
    ELSE LET p == get_percentage(Head(as))
             q == SumPcts(Tail(as))
         IN Pct(p.n * q.d + q.n * p.d, p.d * q.d)
calculate_grade_mean(c) ==
    IF c.assignments = <<>> THEN Pct(0, 1)
    ELSE Pct(SumPcts(c.assignments).n, SumPcts(c.assignments).d * Len(c.assignments))

\* a grade of 100 for a course without assignments
calculate_grade_empty_full(c) ==
    IF c.assignments = <<>> THEN Pct(100, 1)
    ELSE Pct(SumH([i \in 1..Len(c.assignments) |-> c.assignments[i].score]) * 100,
             SumH([i \in 1..Len(c.assignments) |-> c.assignments[i].max_points]))

\* Course.calculate_grade
calculate_grade(c) ==
    IF c.assignments = <<>> THEN Pct(0, 1)
    ELSE LET total_earned == SumH([i \in 1..Len(c.assignments) |-> c.assignments[i].score])
             total_possible == SumH([i \in 1..Len(c.assignments) |-> c.assignments[i].max_points])
         IN IF total_possible = 0 THEN Pct(0, 1)
            ELSE Pct(total_earned * 100, total_possible)

\* bands that exclude their lower bound
PctGT(p, k) == p.n > k * p.d
get_letter_grade_strict(c) ==
    LET percentage == calculate_grade(c) IN
    IF PctGT(percentage, 90) THEN "A"
    ELSE IF PctGT(percentage, 80) THEN "B"
    ELSE IF PctGT(percentage, 70) THEN "C"
    ELSE IF PctGT(percentage, 60) THEN "D"
    ELSE "F"

\* Course.get_letter_grade
get_letter_grade(c) ==
    LET percentage == calculate_grade(c) IN
    IF PctGE(percentage, 90) THEN "A"
    ELSE IF PctGE(percentage, 80) THEN "B"
    ELSE IF PctGE(percentage, 70) THEN "C"
    ELSE IF PctGE(percentage, 60) THEN "D"
    ELSE "F"

\* Course.calculate_gpa; the value is the float 4.0, 3.0, ... as a whole number
calculate_gpa(c) ==
    LET letter_grade == get_letter_grade(c) IN
    CASE letter_grade = "A" -> 4
      [] letter_grade = "B" -> 3
      [] letter_grade = "C" -> 2
      [] letter_grade = "D" -> 1
      [] letter_grade = "F" -> 0
      [] OTHER -> 0

(****************************** DataManager ********************************)
CourseHeader == <<"course_id", "name">>
AssignmentHeader == <<"assignment_id", "course_id", "name", "score", "max_points">>

HeaderLine(h) == WriteRow([i \in 1..Len(h) |-> <<h[i]>>])

AbsentFile == [exists |-> FALSE, lines |-> <<>>]
File(lines) == [exists |-> TRUE, lines |-> lines]

\* a bootstrap that writes the header whether or not the file exists
create_file_always(f, header) == File(<<HeaderLine(header)>>)

\* DataManager.create_files_if_needed, for one of the two files
create_file_if_needed(f, header) == IF f.exists THEN f ELSE File(<<HeaderLine(header)>>)

\* DataManager.load_courses
load_courses(f) ==
    IF ~f.exists THEN <<>>
    ELSE LET rows == DictRows(f.lines)
             names == FieldNames(f.lines)
         IN [i \in 1..Len(rows) |->
                Course(ParseInt(DictGet(names, rows[i], "course_id")),
                       DictGet(names, rows[i], "name"))]

\* DataManager.load_assignments
load_assignments(f) ==
    IF ~f.exists THEN <<>>
    ELSE LET rows == DictRows(f.lines)
             names == FieldNames(f.lines)
         IN [i \in 1..Len(rows) |->
                Assignment(ParseInt(DictGet(names, rows[i], "assignment_id")),
                           ParseInt(DictGet(names, rows[i], "course_id")),
                           DictGet(names, rows[i], "name"),
                           ParseFloat(DictGet(names, rows[i], "score")),
                           ParseFloat(DictGet(names, rows[i], "max_points")))]

\* the load raises (ValueError, TypeError) on a row it cannot convert
LoadRaises(cf, af) ==
    \/ \E i \in 1..Len(load_courses(cf)) : load_courses(cf)[i].course_id = BadInt
    \/ \E i \in 1..Len(load_assignments(af)) :
           LET a == load_assignments(af)[i] IN
           \/ a.assignment_id = BadInt
           \/ a.course_id = BadInt
           \/ a.score = BadNum
           \/ a.max_points = BadNum

CourseRowOf(c) == WriteRow(<<IntToText(c.course_id), c.name>>)

AssignmentRowOf(a) ==
    WriteRow(<<IntToText(a.assignment_id), IntToText(a.course_id), a.name,
               NumToText(a.score), NumToText(a.max_points)>>)

\* a save that keeps the rows the file has for courses that are not in cs
save_all_courses_keep(cs) ==
    File(<<HeaderLine(CourseHeader)>>
         \o [i \in 1..Len(cs) |-> CourseRowOf(cs[i])]
         \o SelectSeq(Tail(coursesFile.lines),
                      LAMBDA line : \A i \in 1..Len(cs) : line # CourseRowOf(cs[i])))

\* DataManager.save_all_courses; cs is the list of Course objects
save_all_courses(cs) ==
    File(<<HeaderLine(CourseHeader)>> \o [i \in 1..Len(cs) |-> CourseRowOf(cs[i])])

\* a save that writes the assignments of the first course only
save_all_assignments_first_course(cs) ==
    File(<<HeaderLine(AssignmentHeader)>>
         \o (IF cs = <<>> THEN <<>>
             ELSE [j \in 1..Len(cs[1].assignments) |-> AssignmentRowOf(cs[1].assignments[j])]))

\* DataManager.save_all_assignments
save_all_assignments(cs) ==
    File(<<HeaderLine(AssignmentHeader)>>
         \o Flatten([i \in 1..Len(cs) |->
                [j \in 1..Len(cs[i].assignments) |-> AssignmentRowOf(cs[i].assignments[j])]]))

(***************************** GradeCalculator *****************************)
\* the Course objects self.courses refers to, in list order
Deref(cs, hp) == [i \in 1..Len(cs) |-> hp[cs[i]]]
Collection == Deref(courses, heap)

\* a loop that keeps the last course whose id matches
FirstMatch_last(cs, id) ==
    IF \E i \in 1..Len(cs) : cs[i].course_id = id
    THEN CHOOSE i \in 1..Len(cs) :
             cs[i].course_id = id /\ \A j \in (i + 1)..Len(cs) : cs[j].course_id # id
    ELSE 0

\* the inner loop of load_all_data: the first course whose id matches
FirstMatch(cs, id) ==
    IF \E i \in 1..Len(cs) : cs[i].course_id = id
    THEN CHOOSE i \in 1..Len(cs) :
             cs[i].course_id = id /\ \A j \in 1..(i - 1) : cs[j].course_id # id
    ELSE 0

\* a linking loop that gives an assignment matching no course to the first
\* course
RECURSIVE LinkAll_adopt(_, _)
LinkAll_adopt(cs, asgs) ==
    IF asgs = <<>> THEN cs
    ELSE LET k == FirstMatch(cs, Head(asgs).course_id)
             t == IF k = 0 /\ cs # <<>> THEN 1 ELSE k
         IN LinkAll_adopt(IF t = 0 THEN cs
                          ELSE [cs EXCEPT ![t] = add_assignment(@, Head(asgs))],
                          Tail(asgs))

\* the linking loop of load_all_data
RECURSIVE LinkAll(_, _)
LinkAll(cs, asgs) ==
    IF asgs = <<>> THEN cs
    ELSE LET k == FirstMatch(cs, Head(asgs).course_id)
         IN LinkAll(IF k = 0 THEN cs
                    ELSE [cs EXCEPT ![k] = add_assignment(@, Head(asgs))],
                    Tail(asgs))

\* GradeCalculator.load_all_data: the Course objects it leaves in self.courses
load_all_data(cf, af) == LinkAll(load_courses(cf), load_assignments(af))

\* GradeCalculator.save_all_data, run after the mutation of the same call:
\* both files are overwritten from self.courses, courses first
save_all_data ==
    /\ coursesFile' = save_all_courses(Deref(courses', heap'))
    /\ assignmentsFile' = save_all_assignments(Deref(courses', heap'))

\* What the caller observes of a call: the operation, whether it returned
\* ("ok") or raised ("ValueError", with msg), the arguments of a call that
\* raised (args), the object it returned (ret: a Course object as
\* Handle(r, 0), an Assignment object as Handle(r, k), None as NoRef), the id
\* of the object it created (id), whether it wrote the stores (wrote), and
\* for the grade accessors the letter and the gpa they returned.
NoRef == [course |-> 0, pos |-> 0]
Result(op, status, msg, ret, id) ==
    [op |-> op, status |-> status, msg |-> msg, args |-> <<>>, ret |-> ret, id |-> id,
     wrote |-> FALSE, letter |-> "", gpa |-> 0]
Wrote(r) == [r EXCEPT !.wrote = TRUE]
Raised(op, msg, args) == [Result(op, "ValueError", msg, NoRef, 0) EXCEPT !.args = args]

\* An Assignment object is created into one Course object's list and never
\* moves, so a reference to it is the Course object and the position there.
Handle(r, k) == [course |-> r, pos |-> k]
\* a reference the caller kept to an Assignment that no list holds any more
StaleHandle == Handle(0, 0)
Handles == {Handle(r, k) : r \in 1..Len(heap), k \in 1..MaxAsgObjs} \cup {StaleHandle}
IsHeld(h) == h.course \in 1..Len(heap) /\ h.pos \in 1..Len(heap[h.course].assignments)
\* position of the object h in Course object c's list, 0 when it is not there
PosIn(c, h) == IF IsHeld(h) /\ h.course = c THEN h.pos ELSE 0

\* every Assignment object held by some Course object of the process
AllHeld == Flatten([r \in 1..Len(heap) |-> heap[r].assignments])

(******************************** inputs ***********************************)
CourseNames == { <<" ">>, <<"Algorithms">>, <<" ", "M", ",", "\"", " ">> }
\* <<name, score, max_points>> as passed to add_assignment
AssignmentInputs ==
    { <<<<"HW1">>, Int_(8), Int_(10)>>,
      <<<<"HW2">>, Int_(18), Int_(20)>>,
      <<<<" ">>, Int_(8), Int_(10)>>,
      <<<<" ">>, Int_(0), Int_(0)>>,
      <<<<"HW1">>, Int_(0), Int_(0)>>,
      <<<<"HW1">>, Int_(-1), Int_(0)>>,
      <<<<"HW1">>, Int_(-1), Int_(10)>>,
      <<<<"HW1">>, Float_(21), Float_(20)>> }

(***************************** initial state *******************************)
\* first run: no file exists; DataManager() creates both, then the load
Init ==
    /\ coursesFile = create_file_if_needed(AbsentFile, CourseHeader)
    /\ assignmentsFile = create_file_if_needed(AbsentFile, AssignmentHeader)
    /\ heap = load_all_data(coursesFile, assignmentsFile)
    /\ courses = [i \in 1..Len(heap) |-> i]
    /\ result = Result("init", "ok", "", NoRef, 0)
    /\ parked = <<>>

(******************************** add_course *******************************)
AddCourseRejected(name) ==
    /\ Strip(name) = <<>>
    /\ result' = Raised("add_course", "Course name cannot be empty", <<name>>)
    /\ UNCHANGED <<courses, heap, coursesFile, assignmentsFile, parked>>

\* an id taken from the number of courses instead of the largest id
NewCourseId_count == Len(courses) + 1

NewCourseId == MaxDefault0([i \in 1..Len(courses) |-> heap[courses[i]].course_id]) + 1

AddCourseOk(name) ==
    /\ Strip(name) # <<>>
    /\ Len(heap) < MaxCourseObjs
    /\ NewCourseId <= MaxId
    /\ LET new_id == NewCourseId
           course == Course(new_id, Strip(name))
       IN /\ heap' = Append(heap, course)
          /\ courses' = Append(courses, Len(heap) + 1)
          /\ result' = Wrote(Result("add_course", "ok", "", Handle(Len(heap) + 1, 0), new_id))
    /\ save_all_data
    /\ parked' = parked

\* GradeCalculator.add_course(name)
AddCourse(name) == AddCourseRejected(name) \/ AddCourseOk(name)

(******************************* delete_course *****************************)
DeleteCoursePresent(c) ==
    /\ c \in Range(courses)
    /\ courses' = RemoveFirst(courses, c)
    /\ heap' = heap
    /\ save_all_data
    /\ result' = Wrote(Result("delete_course", "ok", "", NoRef, 0))
    /\ parked' = parked

DeleteCourseAbsent(c) ==
    /\ c \notin Range(courses)
    /\ result' = Result("delete_course", "ok", "", NoRef, 0)
    /\ UNCHANGED <<courses, heap, coursesFile, assignmentsFile, parked>>

\* GradeCalculator.delete_course(course)
DeleteCourse(c) == DeleteCoursePresent(c) \/ DeleteCourseAbsent(c)

(****************************** add_assignment *****************************)
\* the guard clauses without the last one
ValidationMsg_no_exceed(name, score, max_points) ==
    IF Strip(name) = <<>> THEN "Assignment name cannot be empty"
    ELSE IF max_points.h <= 0 THEN "Max points must be greater than 0"
    ELSE IF score.h < 0 THEN "Score cannot be negative"
    ELSE ""

\* the guard clauses with the two score checks before the max_points check
ValidationMsg_score_first(name, score, max_points) ==
    IF Strip(name) = <<>> THEN "Assignment name cannot be empty"
    ELSE IF score.h < 0 THEN "Score cannot be negative"
    ELSE IF score.h > max_points.h THEN "Score cannot exceed max points"
    ELSE IF max_points.h <= 0 THEN "Max points must be greater than 0"
    ELSE ""

\* the guard clauses without the one on a negative score
ValidationMsg_no_negative(name, score, max_points) ==
    IF Strip(name) = <<>> THEN "Assignment name cannot be empty"
    ELSE IF max_points.h <= 0 THEN "Max points must be greater than 0"
    ELSE IF score.h > max_points.h THEN "Score cannot exceed max points"
    ELSE ""

\* the four guard clauses, in the order of the code; "" when all pass
ValidationMsg(name, score, max_points) ==
    IF Strip(name) = <<>> THEN "Assignment name cannot be empty"
    ELSE IF max_points.h <= 0 THEN "Max points must be greater than 0"
    ELSE IF score.h < 0 THEN "Score cannot be negative"
    ELSE IF score.h > max_points.h THEN "Score cannot exceed max points"
    ELSE ""

AddAssignmentRejected(c, name, score, max_points) ==
    /\ ValidationMsg(name, score, max_points) # ""
    /\ result' = Raised("add_assignment", ValidationMsg(name, score, max_points),
                        <<name, score, max_points>>)
    /\ UNCHANGED <<courses, heap, coursesFile, assignmentsFile, parked>>

\* an id taken from the number of assignments instead of the largest id
NewAssignmentId_count ==
    Len(Flatten([i \in 1..Len(courses) |-> heap[courses[i]].assignments])) + 1

NewAssignmentId ==
    LET all_assignments == Flatten([i \in 1..Len(courses) |-> heap[courses[i]].assignments])
    IN MaxDefault0([i \in 1..Len(all_assignments) |-> all_assignments[i].assignment_id]) + 1

AddAssignmentOk(c, name, score, max_points) ==
    /\ ValidationMsg(name, score, max_points) = ""
    /\ Len(AllHeld) < MaxAsgObjs
    /\ NewAssignmentId <= MaxId
    /\ LET new_id == NewAssignmentId
           assignment == Assignment(new_id, heap[c].course_id, Strip(name),
                                    score, max_points)
       IN /\ heap' = [heap EXCEPT ![c] = add_assignment(@, assignment)]
          /\ result' = Wrote(Result("add_assignment", "ok", "",
                                    Handle(c, Len(heap[c].assignments) + 1), new_id))
    /\ courses' = courses
    /\ save_all_data
    /\ parked' = parked

\* GradeCalculator.add_assignment(course, name, score, max_points)
AddAssignment(c, name, score, max_points) ==
    AddAssignmentRejected(c, name, score, max_points) \/ AddAssignmentOk(c, name, score, max_points)

(***************************** delete_assignment ***************************)
DeleteAssignment(c, h) ==
    /\ IsHeld(h) \/ h = StaleHandle
    /\ heap' = [heap EXCEPT ![c] = remove_assignment(@, PosIn(c, h))]
    /\ courses' = courses
    /\ save_all_data
    /\ result' = Wrote(Result("delete_assignment", "ok", "", NoRef, 0))
    /\ parked' = parked

(********************** a new process: GradeCalculator() *******************)
\* The process ends and the program is started again: DataManager() finds
\* both files, load_all_data rebuilds the collection from them.
Restart ==
    /\ ~LoadRaises(coursesFile, assignmentsFile)
    /\ heap' = load_all_data(create_file_if_needed(coursesFile, CourseHeader),
                             create_file_if_needed(assignmentsFile, AssignmentHeader))
    /\ courses' = [i \in 1..Len(heap') |-> i]
    /\ coursesFile' = create_file_if_needed(coursesFile, CourseHeader)
    /\ assignmentsFile' = create_file_if_needed(assignmentsFile, AssignmentHeader)
    /\ result' = Result("init", "ok", "", NoRef, 0)
    /\ parked' = parked

(***************************** grade accessors *****************************)
\* the presentation layer reads a course's letter grade and gpa
\* (Course.get_letter_grade, Course.calculate_gpa); nothing else changes
GetGrades(c) ==
    /\ result' = [Result("grades", "ok", "", Handle(c, 0), 0)
                      EXCEPT !.letter = get_letter_grade(heap[c]),
                             !.gpa = calculate_gpa(heap[c])]
    /\ UNCHANGED <<courses, heap, coursesFile, assignmentsFile, parked>>

Next ==
    \/ \E name \in CourseNames : AddCourse(name)
    \/ \E c \in 1..Len(heap) : DeleteCourse(c)
    \/ \E c \in 1..Len(heap), in \in AssignmentInputs : AddAssignment(c, in[1], in[2], in[3])
    \/ \E c \in 1..Len(heap), h \in Handles : DeleteAssignment(c, h)
    \/ Restart

Spec == Init /\ [][Next]_vars

(************* the grade computation over bounded whole scores *************)
GradeMaxPoints == 10     \* largest max_points of an assignment
GradeMaxAsgs == 2        \* assignments of the course

\* <<score, max_points>> that add_assignment accepts: whole numbers with
\* 0 <= score <= max_points and max_points > 0
GradePairs == {<<s, m>> \in (0..GradeMaxPoints) \X (1..GradeMaxPoints) : s <= m}
GradeLists == UNION {[1..k -> GradePairs] : k \in 0..GradeMaxAsgs}

\* one course "Algorithms" whose assignments were added with these scores
GradeCourse(list) ==
    [Course(1, <<"Algorithms">>) EXCEPT !.assignments =
        [i \in 1..Len(list) |->
            Assignment(i, 1, <<"HW", DigitTok[i + 1]>>, Int_(list[i][1]), Int_(list[i][2]))]]

InitGrade ==
    \E list \in GradeLists :
        /\ heap = <<GradeCourse(list)>>
        /\ courses = <<1>>
        /\ coursesFile = save_all_courses(<<GradeCourse(list)>>)
        /\ assignmentsFile = save_all_assignments(<<GradeCourse(list)>>)
        /\ result = Result("init", "ok", "", NoRef, 0)
        /\ parked = <<>>

NextGrade == \E c \in 1..Len(heap) : GetGrades(c)

SpecGrade == InitGrade /\ [][NextGrade]_vars

(******************* the overall gpa over bounded collections **************)
MaxOverallCourses == 2   \* courses of the collection

\* sum(course.calculate_gpa() for course in cs)
RECURSIVE SumGpa(_)
SumGpa(cs) == IF cs = <<>> THEN 0 ELSE calculate_gpa(Head(cs)) + SumGpa(Tail(cs))

\* a total that is not divided by the number of courses
calculate_overall_gpa_total(cs) == Pct(SumGpa(cs), 1)

\* GradeCalculator.calculate_overall_gpa on the collection cs; the float it
\* returns as the exact ratio n/d
calculate_overall_gpa(cs) ==
    IF cs = <<>> THEN Pct(0, 1)
    ELSE LET total_gpa == SumGpa(cs)
         IN Pct(total_gpa, Len(cs))

\* GradeCalculator.calculate_overall_gpa(): result.gpa is the ratio returned
GetOverallGpa ==
    /\ result' = [Result("overall_gpa", "ok", "", NoRef, 0)
                      EXCEPT !.gpa = calculate_overall_gpa(Collection)]
    /\ UNCHANGED <<courses, heap, coursesFile, assignmentsFile, parked>>

\* scores out of 10 that give each letter, and none for an empty course
OverallScores == {5, 6, 7, 8, 9}
OverallCourse(id, score) ==
    IF score = 0 THEN Course(id, <<"Algorithms">>)
    ELSE add_assignment(Course(id, <<"Algorithms">>),
                        Assignment(id, id, <<"HW1">>, Int_(score), Int_(10)))
OverallLists == UNION {[1..k -> OverallScores \cup {0}] : k \in 0..MaxOverallCourses}

InitOverall ==
    \E list \in OverallLists :
        /\ heap = [i \in 1..Len(list) |-> OverallCourse(i, list[i])]
        /\ courses = [i \in 1..Len(list) |-> i]
        /\ coursesFile = save_all_courses(heap)
        /\ assignmentsFile = save_all_assignments(heap)
        /\ result = Result("init", "ok", "", NoRef, 0)
        /\ parked = <<>>

NextOverall ==
    \/ GetOverallGpa
    \/ \E c \in 1..Len(heap) : DeleteCourse(c)

SpecOverall == InitOverall /\ [][NextOverall]_vars

(************** a process started on stores it did not write ***************)
\* The stores as a process can find them: written by an earlier run, by
\* another program or by hand.  Course rows may repeat a course_id, and an
\* assignment row may name a course_id that no course row has.
FoundCourses ==
    { <<>>,
      <<Course(1, <<"Algorithms">>)>>,
      <<Course(2, <<"Algorithms">>)>>,
      <<Course(1, <<"Algorithms">>), Course(2, <<"M">>)>>,
      <<Course(1, <<"Algorithms">>), Course(1, <<"M">>)>> }
FoundRow1 == Assignment(1, 1, <<"HW1">>, Int_(8), Int_(10))
FoundRow2 == Assignment(2, 2, <<"HW2">>, Float_(36), Float_(40))
FoundAssignments ==
    { <<>>, <<FoundRow1>>, <<FoundRow2>>, <<FoundRow1, FoundRow2>>, <<FoundRow2, FoundRow1>> }

\* GradeCalculator() on found stores: both files exist, load_all_data links
InitLoad ==
    \E cs \in FoundCourses, as \in FoundAssignments :
        /\ coursesFile = save_all_courses(cs)
        /\ assignmentsFile =
               File(<<HeaderLine(AssignmentHeader)>> \o [j \in 1..Len(as) |-> AssignmentRowOf(as[j])])
        /\ heap = load_all_data(coursesFile, assignmentsFile)
        /\ courses = [i \in 1..Len(heap) |-> i]
        /\ result = Result("init", "ok", "", NoRef, 0)
        /\ parked = <<>>

NextLoad ==
    \/ \E name \in CourseNames : AddCourse(name)
    \/ \E c \in 1..Len(heap) : DeleteCourse(c)
    \/ \E c \in 1..Len(heap), in \in AssignmentInputs : AddAssignment(c, in[1], in[2], in[3])
    \/ \E c \in 1..Len(heap), h \in Handles : DeleteAssignment(c, h)
    \/ Restart

SpecLoad == InitLoad /\ [][NextLoad]_vars

(************* the process is killed between the two writes ****************)
\* a save whose first write is the assignment store
save_assignments_only(cs) ==
    /\ assignmentsFile' = save_all_assignments(cs)
    /\ coursesFile' = coursesFile

\* save_all_data cut after its first statement: save_all_courses has
\* returned, save_all_assignments has not started
save_courses_only(cs) ==
    /\ coursesFile' = save_all_courses(cs)
    /\ assignmentsFile' = assignmentsFile

\* the process is gone and its objects with it; the call never returned
Killed(op) ==
    /\ heap' = <<>>
    /\ courses' = <<>>
    /\ result' = Result(op, "crashed", "", NoRef, 0)
    /\ parked' = parked

Alive == result.status # "crashed"

AddCourseCrash(name) ==
    /\ Strip(name) # <<>>
    /\ Len(heap) < MaxCourseObjs
    /\ NewCourseId <= MaxId
    /\ save_courses_only(Append(Collection, Course(NewCourseId, Strip(name))))
    /\ Killed("add_course")

DeleteCourseCrash(c) ==
    /\ c \in Range(courses)
    /\ save_courses_only(Deref(RemoveFirst(courses, c), heap))
    /\ Killed("delete_course")

AddAssignmentCrash(c, name, score, max_points) ==
    /\ ValidationMsg(name, score, max_points) = ""
    /\ Len(AllHeld) < MaxAsgObjs
    /\ NewAssignmentId <= MaxId
    /\ save_courses_only(Collection)
    /\ Killed("add_assignment")

DeleteAssignmentCrash(c, h) ==
    /\ IsHeld(h) \/ h = StaleHandle
    /\ save_courses_only(Collection)
    /\ Killed("delete_assignment")

NextCrash ==
    \/ Alive /\ \E name \in CourseNames : AddCourse(name)
    \/ Alive /\ \E c \in 1..Len(heap) : DeleteCourse(c)
    \/ Alive /\ \E c \in 1..Len(heap), in \in AssignmentInputs : AddAssignment(c, in[1], in[2], in[3])
    \/ Alive /\ \E c \in 1..Len(heap), h \in Handles : DeleteAssignment(c, h)
    \/ Alive /\ \E name \in CourseNames : AddCourseCrash(name)
    \/ Alive /\ \E c \in 1..Len(heap) : DeleteCourseCrash(c)
    \/ Alive /\ \E c \in 1..Len(heap), in \in AssignmentInputs :
                    AddAssignmentCrash(c, in[1], in[2], in[3])
    \/ Alive /\ \E c \in 1..Len(heap), h \in Handles : DeleteAssignmentCrash(c, h)
    \/ Restart

SpecCrash == Init /\ [][NextCrash]_vars

(******************* two processes on the same stores **********************)
\* a GradeCalculator instance of another process: its list and its objects
Instance(cs, hp) == [courses |-> cs, heap |-> hp]

\* a second process constructs its GradeCalculator on the stores as they are
StartSecond ==
    /\ parked = <<>>
    /\ ~LoadRaises(coursesFile, assignmentsFile)
    /\ LET hp == load_all_data(create_file_if_needed(coursesFile, CourseHeader),
                               create_file_if_needed(assignmentsFile, AssignmentHeader))
       IN parked' = <<Instance([i \in 1..Len(hp) |-> i], hp)>>
    /\ coursesFile' = create_file_if_needed(coursesFile, CourseHeader)
    /\ assignmentsFile' = create_file_if_needed(assignmentsFile, AssignmentHeader)
    /\ UNCHANGED <<courses, heap, result>>

\* the next call is made in the other process: courses and heap are now its
\* instance, the instance of the process that made the calls so far waits
Switch ==
    /\ parked # <<>>
    /\ courses' = parked[1].courses
    /\ heap' = parked[1].heap
    /\ parked' = <<Instance(courses, heap)>>
    /\ result' = Result("switch", "ok", "", NoRef, 0)
    /\ UNCHANGED <<coursesFile, assignmentsFile>>

MaxTwoAsgs == 1      \* Assignment objects held by the Course objects of one process
TwoCourseNames == { <<"Algorithms">>, <<"M">>, <<" ">> }
TwoAssignmentInputs == { <<<<"HW1">>, Int_(8), Int_(10)>>, <<<<"HW1">>, Int_(-1), Int_(10)>> }

NextTwo ==
    \/ \E name \in TwoCourseNames : AddCourse(name)
    \/ \E c \in 1..Len(heap) : DeleteCourse(c)
    \/ /\ Len(AllHeld) < MaxTwoAsgs
       /\ \E c \in 1..Len(heap), in \in TwoAssignmentInputs : AddAssignment(c, in[1], in[2], in[3])
    \/ \E c \in 1..Len(heap), h \in Handles : DeleteAssignment(c, h)
    \/ StartSecond
    \/ Switch

SpecTwo == Init /\ [][NextTwo]_vars

(************** scores at and around the limits of the guards **************)
\* score and max_points as whole numbers and as floats with a half
ScoreValues == {Int_(-1), Int_(0), Int_(10), Float_(1), Float_(21)}
MaxPointsValues == {Int_(0), Int_(10), Float_(1)}
ScoreInputs == {<<<<"HW1">>, s, m>> : s \in ScoreValues, m \in MaxPointsValues}

NextScores ==
    \/ \E name \in {<<"Algorithms">>, <<" ">>} : AddCourse(name)
    \/ \E c \in 1..Len(heap) : DeleteCourse(c)
    \/ \E c \in 1..Len(heap), in \in ScoreInputs : AddAssignment(c, in[1], in[2], in[3])
    \/ \E c \in 1..Len(heap), h \in Handles : DeleteAssignment(c, h)
    \/ Restart

SpecScores == Init /\ [][NextScores]_vars

(*********************** the first start of a process **********************)
\* no file exists and no process runs
InitBoot ==
    /\ coursesFile = AbsentFile
    /\ assignmentsFile = AbsentFile
    /\ heap = <<>>
    /\ courses = <<>>
    /\ result = Result("none", "off", "", NoRef, 0)
    /\ parked = <<>>

\* a process constructed its GradeCalculator and was not killed
Running == result.status \in {"ok", "ValueError"}

\* the process is killed in create_files_if_needed after the first file
BootCrash ==
    /\ ~assignmentsFile.exists
    /\ coursesFile' = create_file_if_needed(coursesFile, CourseHeader)
    /\ assignmentsFile' = assignmentsFile
    /\ Killed("init")

NextBoot ==
    \/ Running /\ \E name \in CourseNames : AddCourse(name)
    \/ Running /\ \E c \in 1..Len(heap) : DeleteCourse(c)
    \/ Running /\ \E c \in 1..Len(heap), in \in AssignmentInputs : AddAssignment(c, in[1], in[2], in[3])
    \/ Running /\ \E c \in 1..Len(heap), h \in Handles : DeleteAssignment(c, h)
    \/ BootCrash
    \/ Restart

SpecBoot == InitBoot /\ [][NextBoot]_vars

(***************************************************************************)
(*                               The claims                                *)
(***************************************************************************)
Mutators == {"add_course", "delete_course", "add_assignment", "delete_assignment"}
AfterMutator == result.op \in Mutators /\ result.status = "ok"

InCollection(r) == r \in Range(courses)
\* the assignments of the courses of the collection, in store order
CollectionAssignments == Flatten([i \in 1..Len(courses) |-> Collection[i].assignments])

CourseFields(c) == <<IntToText(c.course_id), c.name>>
AssignmentFields(a) ==
    <<IntToText(a.assignment_id), IntToText(a.course_id), a.name,
      NumToText(a.score), NumToText(a.max_points)>>

\* the data rows of a store, as the fields a CSV reader sees
RowsOf(f) == [i \in 1..(Len(f.lines) - 1) |-> ReadRow(f.lines[i + 1])]

StoresReflectMemory ==
    /\ coursesFile.exists /\ assignmentsFile.exists
    /\ ReadRow(coursesFile.lines[1]) = [i \in 1..2 |-> <<CourseHeader[i]>>]
    /\ ReadRow(assignmentsFile.lines[1]) = [i \in 1..5 |-> <<AssignmentHeader[i]>>]
    /\ RowsOf(coursesFile) = [i \in 1..Len(courses) |-> CourseFields(Collection[i])]
    /\ RowsOf(assignmentsFile) =
           [i \in 1..Len(CollectionAssignments) |-> AssignmentFields(CollectionAssignments[i])]

\* C1: after any successful add_course, delete_course, add_assignment or
\* delete_assignment the course store holds one row (course_id, name) per
\* course of the collection, in order, and the assignment store one row per
\* assignment of those courses, in course order then assignment order.
C1_StoresReflectMemory == AfterMutator => StoresReflectMemory

\* two courses with one assignment each, the second one just added
C1_Witness ==
    /\ result.op = "add_assignment" /\ result.status = "ok"
    /\ Len(courses) = 2
    /\ \A i \in 1..2 : Len(Collection[i].assignments) = 1

\* C2 as stated: the ids add_course has returned are pairwise distinct and
\* strictly increasing, and the id of a deleted course never comes back.  The
\* Course objects of the process (heap) are, in creation order, the courses
\* it loaded and the courses add_course returned, deleted ones included.
C2_IdsNeverReused ==
    \A r1, r2 \in 1..Len(heap) : r1 < r2 => heap[r1].course_id < heap[r2].course_id

\* C2 as amended: the id add_course returns is the largest id among the
\* courses then in the collection plus one (1 for an empty collection), so
\* the ids of the courses in the collection are pairwise distinct and
\* strictly increasing in list order.
C2_IdsIncreaseInCollection ==
    /\ \A i, j \in 1..Len(courses) :
           i < j => Collection[i].course_id < Collection[j].course_id
    /\ (result.op = "add_course" /\ result.status = "ok") =>
           /\ InCollection(result.ret.course)
           /\ heap[result.ret.course].course_id = result.id
           /\ result.id = 1 + SetMax({heap[r].course_id :
                                         r \in Range(courses) \ {result.ret.course}})

\* add_course has just returned the id of a course deleted before
C2_Witness ==
    /\ result.op = "add_course" /\ result.status = "ok"
    /\ \E r \in 1..Len(heap) : ~InCollection(r) /\ heap[r].course_id = result.id

\* the constraints of add_assignment, as the spec lists them
NameEmpty(name) == Strip(name) = <<>>
InvalidAssignment(name, score, max_points) ==
    \/ NameEmpty(name)
    \/ max_points.h <= 0
    \/ score.h < 0
    \/ score.h > max_points.h

RejectedStep ==
    /\ result'.status = "ValueError"
    /\ ~result'.wrote
    /\ UNCHANGED <<courses, heap, coursesFile, assignmentsFile>>

\* C3: add_assignment with an empty (after trimming) name, max_points <= 0,
\* score < 0 or score > max_points, and add_course with an empty (after
\* trimming) name, end in a validation error, leave the collection and every
\* course's assignment list unchanged, and write neither store.
C3_RejectedChangesNothing ==
    [][/\ \A c \in 1..Len(heap), in \in AssignmentInputs :
              (InvalidAssignment(in[1], in[2], in[3]) /\ AddAssignment(c, in[1], in[2], in[3]))
                  => RejectedStep
       /\ \A name \in CourseNames : (NameEmpty(name) /\ AddCourse(name)) => RejectedStep]_vars

\* a score above max_points was just rejected while assignments exist
C3_Witness ==
    /\ result.op = "add_assignment" /\ result.status = "ValueError"
    /\ result.args[2].h > result.args[3].h
    /\ result.args[3].h > 0
    /\ Len(CollectionAssignments) >= 1

\* Courses and assignments compared as Python compares them field by field:
\* numbers by value (8 == 8.0)
AssignmentEq(a, b) ==
    /\ a.assignment_id = b.assignment_id
    /\ a.course_id = b.course_id
    /\ a.name = b.name
    /\ NumEq(a.score, b.score)
    /\ NumEq(a.max_points, b.max_points)
CourseEq(c, d) ==
    /\ c.course_id = d.course_id
    /\ c.name = d.name
    /\ Len(c.assignments) = Len(d.assignments)
    /\ \A j \in 1..Len(c.assignments) : AssignmentEq(c.assignments[j], d.assignments[j])
CollectionEq(cs, ds) ==
    /\ Len(cs) = Len(ds)
    /\ \A i \in 1..Len(cs) : CourseEq(cs[i], ds[i])

\* C4: saving a non-empty collection the orchestration operations can reach
\* and loading it back (load courses, load assignments, link by course_id)
\* gives the same courses in the same order, each with the same assignments
\* (id, course_id, name, score, max_points) in the same order.
C4_RoundTrip ==
    Len(courses) >= 1 =>
        CollectionEq(load_all_data(save_all_courses(Collection),
                                   save_all_assignments(Collection)),
                     Collection)

\* a process has just loaded two courses, one with a name the writer has to
\* quote, and two assignments
C4_Witness ==
    /\ result.op = "init"
    /\ Len(courses) = 2
    /\ \E i \in 1..2 : "," \in Range(Collection[i].name)
    /\ Len(CollectionAssignments) = 2

ReturnedAssignment == heap[result.ret.course].assignments[result.ret.pos]
AddedAssignment == result.op = "add_assignment" /\ result.status = "ok"
HasRow(a) == \E i \in 1..Len(RowsOf(assignmentsFile)) : RowsOf(assignmentsFile)[i] = AssignmentFields(a)
ReturnedIsLast ==
    /\ result.ret.pos = Len(heap[result.ret.course].assignments)
    /\ ReturnedAssignment.assignment_id = result.id
    /\ ReturnedAssignment.course_id = heap[result.ret.course].course_id

\* C5 as stated: after a successful add_assignment, whichever Course object
\* it was given, the returned assignment is the last of that course's list
\* and the assignment store has a row for it.
C5_RowForAnyCourse == AddedAssignment => (ReturnedIsLast /\ HasRow(ReturnedAssignment))

\* C5 as amended: the returned assignment is the last of the given course's
\* list; the assignment store has a row for it when the course is in the
\* collection.
C5_RowForCollectionCourse ==
    AddedAssignment =>
        /\ ReturnedIsLast
        /\ InCollection(result.ret.course) => HasRow(ReturnedAssignment)

\* an assignment was just added to the first of two courses, behind one the
\* course already had
C5_Witness ==
    /\ AddedAssignment
    /\ Len(courses) = 2
    /\ result.ret.course = courses[1]
    /\ result.ret.pos = 2

\* two lists of assignments with equal fields, numbers compared by value (a
\* row written from a loaded float reads "8.0" where the first save wrote "8")
SameAssignments(xs, ys) ==
    /\ Len(xs) = Len(ys)
    /\ \A i \in 1..Len(xs) : AssignmentEq(xs[i], ys[i])

\* C6: delete_course of a course in the collection removes exactly that
\* course, leaves no row for it in the course store and no row for any of
\* its assignments in the assignment store, and leaves every other course
\* and its assignments (objects and rows) as they were; delete_course of a
\* course not in the collection changes neither the collection nor a store.
C6_DeleteCourseFrame ==
    [][\A c \in 1..Len(heap) :
          (result'.op = "delete_course" /\ DeleteCourse(c)) =>
              IF InCollection(c)
              THEN /\ courses' = SelectSeq(courses, LAMBDA r : r # c)
                   /\ Len(courses') = Len(courses) - 1
                   /\ heap' = heap
                   /\ \A i \in 1..Len(RowsOf(coursesFile')) :
                          RowsOf(coursesFile')[i][1] # IntToText(heap[c].course_id)
                   /\ \A i \in 1..Len(RowsOf(assignmentsFile')) :
                          /\ RowsOf(assignmentsFile')[i][2] # IntToText(heap[c].course_id)
                          /\ \A j \in 1..Len(heap[c].assignments) :
                                 RowsOf(assignmentsFile')[i] # AssignmentFields(heap[c].assignments[j])
                   /\ RowsOf(coursesFile') =
                          SelectSeq(RowsOf(coursesFile),
                                    LAMBDA row : row # CourseFields(heap[c]))
                   /\ SameAssignments(
                          load_assignments(assignmentsFile'),
                          SelectSeq(load_assignments(assignmentsFile),
                                    LAMBDA a : a.course_id # heap[c].course_id))
              ELSE UNCHANGED <<courses, heap, coursesFile, assignmentsFile>>]_vars

\* a course with an assignment was just deleted, another one with an
\* assignment remains
C6_Witness ==
    /\ result.op = "delete_course" /\ result.wrote
    /\ Len(courses) = 1
    /\ Len(Collection[1].assignments) = 1
    /\ \E r \in 1..Len(heap) : ~InCollection(r) /\ Len(heap[r].assignments) = 1

HeldHandles == {h \in Handles : IsHeld(h)}
Held(h) == heap[h.course].assignments[h.pos]
CollectionHandles == {h \in HeldHandles : InCollection(h.course)}
NewIdIsMaxPlusOne ==
    AddedAssignment =>
        /\ ReturnedAssignment.assignment_id = result.id
        /\ result.id = 1 + SetMax({Held(h).assignment_id : h \in CollectionHandles \ {result.ret}})
StoreIdsUnique ==
    \A i, j \in 1..Len(RowsOf(assignmentsFile)) :
        i # j => RowsOf(assignmentsFile)[i][1] # RowsOf(assignmentsFile)[j][1]

\* C7 as stated: each id add_assignment assigns is max(assignment ids of the
\* collection, default 0) + 1, and no two assignments held by any courses,
\* and no two rows of the assignment store, share an assignment_id.
C7_IdsUniqueEverywhere ==
    /\ NewIdIsMaxPlusOne
    /\ \A h1, h2 \in HeldHandles : h1 # h2 => Held(h1).assignment_id # Held(h2).assignment_id
    /\ StoreIdsUnique

\* C7 as amended: the same, for the assignments held by the courses of the
\* collection.
C7_IdsUniqueInCollection ==
    /\ NewIdIsMaxPlusOne
    /\ \A h1, h2 \in CollectionHandles : h1 # h2 => Held(h1).assignment_id # Held(h2).assignment_id
    /\ StoreIdsUnique

\* the second assignment of the collection was just added, to another course
\* than the first
C7_Witness ==
    /\ AddedAssignment
    /\ InCollection(result.ret.course)
    /\ result.id = 2
    /\ \E h \in CollectionHandles : h.course # result.ret.course

\* the first violated check, in the order name, max_points, negative score,
\* score above max_points
FirstViolated(name, score, max_points) ==
    CASE NameEmpty(name) -> "Assignment name cannot be empty"
      [] ~NameEmpty(name) /\ max_points.h <= 0 -> "Max points must be greater than 0"
      [] ~NameEmpty(name) /\ max_points.h > 0 /\ score.h < 0 -> "Score cannot be negative"
      [] ~NameEmpty(name) /\ max_points.h > 0 /\ score.h >= 0 /\ score.h > max_points.h ->
             "Score cannot exceed max points"

\* C8: when add_assignment rejects a call, the error is that of the first
\* violated check in the order name-empty, max_points <= 0, score < 0,
\* score > max_points.
C8_FirstViolatedCheckReported ==
    (result.op = "add_assignment" /\ result.status = "ValueError") =>
        /\ InvalidAssignment(result.args[1], result.args[2], result.args[3])
        /\ result.msg = FirstViolated(result.args[1], result.args[2], result.args[3])

\* max_points = 0 with score = -1 was rejected with the max-points error
C8_Witness ==
    /\ result.op = "add_assignment" /\ result.status = "ValueError"
    /\ ~NameEmpty(result.args[1])
    /\ result.args[3].h = 0 /\ result.args[2].h < 0
    /\ result.msg = "Max points must be greater than 0"

\* the sums of a course's scores and max points, as whole numbers
RECURSIVE SumOf(_)
SumOf(ns) == IF ns = <<>> THEN 0 ELSE Head(ns) + SumOf(Tail(ns))
Earned(c) == SumOf([j \in 1..Len(c.assignments) |-> c.assignments[j].score.h \div 2])
Possible(c) == SumOf([j \in 1..Len(c.assignments) |-> c.assignments[j].max_points.h \div 2])

\* the grade percentage in hundredths of a percent, rounded down
RefHundredths(c) == IF Possible(c) = 0 THEN 0 ELSE (Earned(c) * 10000) \div Possible(c)
RefLetter(c) ==
    CASE RefHundredths(c) >= 9000 -> "A"
      [] RefHundredths(c) >= 8000 /\ RefHundredths(c) < 9000 -> "B"
      [] RefHundredths(c) >= 7000 /\ RefHundredths(c) < 8000 -> "C"
      [] RefHundredths(c) >= 6000 /\ RefHundredths(c) < 7000 -> "D"
      [] RefHundredths(c) < 6000 -> "F"
RefGpa(letter) ==
    CASE letter = "A" -> 4 [] letter = "B" -> 3 [] letter = "C" -> 2
      [] letter = "D" -> 1 [] letter = "F" -> 0

\* C9: for every course the letter grade follows from the percentage
\* sum(scores) / sum(max_points) * 100 by the lower-inclusive bands 90 A,
\* 80 B, 70 C, 60 D, else F, and the gpa is A 4, B 3, C 2, D 1, F 0; exactly
\* 90 gives A, at least 80 and below 90 gives B, below 60 gives F.
C9_LetterAndGpaBands ==
    /\ \A r \in 1..Len(heap) :
           /\ get_letter_grade(heap[r]) = RefLetter(heap[r])
           /\ calculate_gpa(heap[r]) = RefGpa(RefLetter(heap[r]))
           /\ (Possible(heap[r]) > 0 /\ 100 * Earned(heap[r]) = 90 * Possible(heap[r]))
                  => get_letter_grade(heap[r]) = "A"
           /\ (100 * Earned(heap[r]) >= 80 * Possible(heap[r])
                 /\ 100 * Earned(heap[r]) < 90 * Possible(heap[r]))
                  => get_letter_grade(heap[r]) = "B"
           /\ 100 * Earned(heap[r]) < 60 * Possible(heap[r])
                  => get_letter_grade(heap[r]) = "F"
    /\ result.op = "grades" =>
           /\ result.letter = RefLetter(heap[result.ret.course])
           /\ result.gpa = RefGpa(result.letter)

\* the accessors returned A and 4 for two assignments summing to exactly 90 %
C9_Witness ==
    /\ result.op = "grades"
    /\ Len(heap[result.ret.course].assignments) = 2
    /\ 100 * Earned(heap[result.ret.course]) = 90 * Possible(heap[result.ret.course])
    /\ result.letter = "A" /\ result.gpa = 4

EmptyStores == RowsOf(coursesFile) = <<>> /\ RowsOf(assignmentsFile) = <<>>
HW1 == Assignment(1, 1, <<"HW1">>, Int_(8), Int_(10))
HW2 == Assignment(2, 1, <<"HW2">>, Int_(18), Int_(20))
\* the collection is the one course r, "Algorithms" with id 1, holding asgs
OnlyAlgorithms(r, asgs) ==
    /\ courses = <<r>>
    /\ heap[r].course_id = 1 /\ heap[r].name = <<"Algorithms">>
    /\ SameAssignments(heap[r].assignments, asgs)
PctIs(p, num, den) == p.n * den = num * p.d

\* C10: from empty stores add_course("Algorithms") returns id 1; then
\* add_assignment(HW1, 8, 10) returns id 1; then add_assignment(HW2, 18, 20)
\* returns id 2, and the course's grade is (8+18)/(10+20)*100, between 80 and
\* 90, its letter grade B and its gpa 3.0.
C10_EndToEnd ==
    [][/\ (result'.op = "add_course" /\ courses = <<>> /\ EmptyStores /\ AddCourse(<<"Algorithms">>))
              => /\ result'.status = "ok" /\ result'.id = 1
                 /\ \E r \in 1..(Len(heap) + 1) :
                        result'.ret = Handle(r, 0) /\ OnlyAlgorithms(r, <<>>)'
       /\ \A c \in 1..Len(heap) :
              (result'.op = "add_assignment" /\ OnlyAlgorithms(c, <<>>)
                 /\ AddAssignment(c, <<"HW1">>, Int_(8), Int_(10)))
                  => (result'.status = "ok" /\ result'.id = 1 /\ OnlyAlgorithms(c, <<HW1>>)')
       /\ \A c \in 1..Len(heap) :
              (result'.op = "add_assignment" /\ OnlyAlgorithms(c, <<HW1>>)
                 /\ AddAssignment(c, <<"HW2">>, Int_(18), Int_(20)))
                  => /\ result'.status = "ok" /\ result'.id = 2
                     /\ OnlyAlgorithms(c, <<HW1, HW2>>)'
                     /\ PctIs(calculate_grade(heap'[c]), (8 + 18) * 100, 10 + 20)
                     /\ PctGE(calculate_grade(heap'[c]), 80)
                     /\ ~PctGE(calculate_grade(heap'[c]), 90)
                     /\ get_letter_grade(heap'[c]) = "B"
                     /\ calculate_gpa(heap'[c]) = 3]_vars

\* the three calls were made on a first run and nothing else
C10_Witness ==
    /\ result.op = "add_assignment" /\ result.status = "ok" /\ result.id = 2
    /\ Len(heap) = 1
    /\ OnlyAlgorithms(1, <<HW1, HW2>>)
    /\ heap[1].assignments[2].score.isInt
    /\ get_letter_grade(heap[1]) = "B"

\* C11: calculate_overall_gpa is the arithmetic mean of the gpa of every
\* course of the collection and 0.0 for an empty collection; after the only
\* course is deleted the collection is empty and the overall gpa is 0.0.
C11_OverallGpaIsMean ==
    /\ Len(courses) >= 1 =>
           calculate_overall_gpa(Collection).n * Len(courses) =
               calculate_overall_gpa(Collection).d
                   * SumOf([i \in 1..Len(courses) |-> RefGpa(RefLetter(Collection[i]))])
    /\ courses = <<>> => calculate_overall_gpa(Collection).n = 0
    /\ (result.op = "delete_course" /\ result.wrote /\ Len(heap) = 1) =>
           (courses = <<>> /\ calculate_overall_gpa(Collection).n = 0)
    /\ result.op = "overall_gpa" =>
           /\ result.gpa.d > 0
           /\ result.gpa.n * Len(courses) =
                  result.gpa.d * SumOf([i \in 1..Len(courses) |-> RefGpa(RefLetter(Collection[i]))])
           /\ courses = <<>> => result.gpa.n = 0

\* the overall gpa 3.5 was just returned for a course with A and one with B
C11_Witness ==
    /\ result.op = "overall_gpa"
    /\ Len(courses) = 2
    /\ {get_letter_grade(Collection[i]) : i \in 1..2} = {"A", "B"}
    /\ 2 * result.gpa.n = 7 * result.gpa.d

\* C12: in every reachable state every course without assignments (a course
\* add_course just returned, a course whose last assignment was deleted) has
\* calculate_grade() = 0.0, get_letter_grade() = "F" and calculate_gpa() = 0.0.
C12_EmptyCourseGrades ==
    \A r \in 1..Len(heap) :
        heap[r].assignments = <<>> =>
            /\ calculate_grade(heap[r]).n = 0 /\ calculate_grade(heap[r]).d > 0
            /\ get_letter_grade(heap[r]) = "F"
            /\ calculate_gpa(heap[r]) = 0

\* add_course just returned a course, which has no assignments, next to a
\* course that has one
C12_Witness ==
    /\ result.op = "add_course" /\ result.status = "ok"
    /\ Len(courses) = 2
    /\ heap[result.ret.course].assignments = <<>>
    /\ Len(CollectionAssignments) = 1

\* an assignment row and an Assignment object by their fields, numbers by value
RowKey(row) == <<row[1], row[2], row[3], ParseFloat(row[4]).h, ParseFloat(row[5]).h>>
AsgKey(a) ==
    <<IntToText(a.assignment_id), IntToText(a.course_id), a.name, a.score.h, a.max_points.h>>
\* the course_id column of the course store
CourseIdsOf(f) == {RowsOf(f)[i][1] : i \in 1..Len(RowsOf(f))}
\* the assignment rows whose course_id no row of the course store has
DanglingRows(af, cf) ==
    {RowsOf(af)[j] : j \in {k \in 1..Len(RowsOf(af)) : RowsOf(af)[k][2] \notin CourseIdsOf(cf)}}
\* the assignment rows naming the course_id of the i-th course row, when no
\* earlier course row has that course_id; none otherwise
RowsLinkedTo(i) ==
    IF \E j \in 1..(i - 1) : RowsOf(coursesFile)[j][1] = RowsOf(coursesFile)[i][1]
    THEN <<>>
    ELSE SelectSeq(RowsOf(assignmentsFile),
                   LAMBDA row : row[2] = RowsOf(coursesFile)[i][1])
JustLoaded == result.op = "init"
LoadLinksFirst ==
    JustLoaded =>
        /\ ~LoadRaises(coursesFile, assignmentsFile)
        /\ Len(courses) = Len(RowsOf(coursesFile))
        /\ \A i \in 1..Len(courses) :
               /\ CourseFields(Collection[i]) = RowsOf(coursesFile)[i]
               /\ [j \in 1..Len(Collection[i].assignments) |-> AsgKey(Collection[i].assignments[j])]
                      = [j \in 1..Len(RowsLinkedTo(i)) |-> RowKey(RowsLinkedTo(i)[j])]
        /\ \A row \in DanglingRows(assignmentsFile, coursesFile) :
               \A r \in 1..Len(heap) : \A j \in 1..Len(heap[r].assignments) :
                   AsgKey(heap[r].assignments[j]) # RowKey(row)
DanglingStep ==
    /\ ~result'.wrote => assignmentsFile' = assignmentsFile
    /\ result'.wrote =>
           \A row \in DanglingRows(assignmentsFile, coursesFile) :
               \A j \in 1..Len(RowsOf(assignmentsFile')) : RowsOf(assignmentsFile')[j] # row

\* C13: at load each assignment row is linked to the first loaded course
\* whose course_id equals the row's; a row whose course_id matches no loaded
\* course is in no course's list and raises no error, stays in the
\* assignment store as long as no call saves, and is absent from it after
\* the next successful mutating call that saves.
C13_DanglingRowsDropped == []LoadLinksFirst /\ [][DanglingStep]_vars

\* a process has just loaded two courses with the same course_id and two
\* assignment rows: one linked to the first course, one matching no course
C13_Witness ==
    /\ JustLoaded
    /\ Len(courses) = 2
    /\ Collection[1].course_id = Collection[2].course_id
    /\ Len(Collection[1].assignments) = 1 /\ Collection[2].assignments = <<>>
    /\ Cardinality(DanglingRows(assignmentsFile, coursesFile)) = 1

CrashedIn(op) == result.op = op /\ result.status = "crashed"
\* no Assignment object of the process has the fields of a row of rows
NoneHeldOf(rows) ==
    \A row \in rows : \A r \in 1..Len(heap) : \A j \in 1..Len(heap[r].assignments) :
        AsgKey(heap[r].assignments[j]) # RowKey(row)
CrashStep ==
    /\ \A c \in 1..Len(heap) :
           (CrashedIn("delete_course")' /\ DeleteCourseCrash(c)) =>
               /\ RowsOf(coursesFile') =
                      SelectSeq(RowsOf(coursesFile), LAMBDA row : row # CourseFields(heap[c]))
               /\ IntToText(heap[c].course_id) \notin CourseIdsOf(coursesFile')
               /\ assignmentsFile' = assignmentsFile
               /\ \A j \in 1..Len(heap[c].assignments) :
                      \E row \in DanglingRows(assignmentsFile', coursesFile') :
                          RowKey(row) = AsgKey(heap[c].assignments[j])
    /\ (result.status = "crashed" /\ result'.op = "init") =>
           /\ UNCHANGED <<coursesFile, assignmentsFile>>
           /\ NoneHeldOf(DanglingRows(assignmentsFile, coursesFile))'
           /\ \A r \in 1..Len(heap') :
                  /\ IntToText(heap'[r].course_id) \in CourseIdsOf(coursesFile)
                  /\ \A j \in 1..Len(heap'[r].assignments) :
                         heap'[r].assignments[j].course_id = heap'[r].course_id

\* C14: the save writes the course store first and the assignment store
\* second; a process killed between the two writes of a delete_course
\* leaves the course store without the course's row and the assignment
\* store with the rows of its assignments, which then name a course_id that
\* no course row has; a process started on these stores loads none of them.
C14_CrashBetweenWrites == [][CrashStep]_vars

\* a process was killed in delete_course between the writes: a course row
\* remains, and an assignment row names the course_id that was deleted
C14_Witness ==
    /\ CrashedIn("delete_course")
    /\ Len(RowsOf(coursesFile)) = 1
    /\ Cardinality(DanglingRows(assignmentsFile, coursesFile)) >= 1

\* the courses of the collection of the waiting instance
OtherCollection == Deref(parked[1].courses, parked[1].heap)
HasCourseRow(f, c) == \E i \in 1..Len(RowsOf(f)) : RowsOf(f)[i] = CourseFields(c)
\* the courses of the waiting instance that the course store has a row for
\* and that the calling instance does not hold
OnlyOthers ==
    {i \in 1..Len(OtherCollection) :
        /\ HasCourseRow(coursesFile, OtherCollection[i])
        /\ \A k \in 1..Len(courses) : CourseFields(Collection[k]) # CourseFields(OtherCollection[i])}
LostUpdateStep ==
    (parked # <<>> /\ result'.wrote) =>
        /\ result'.status = "ok"
        /\ StoresReflectMemory'
        /\ parked' = parked
        /\ \A i \in OnlyOthers :
               (\A k \in 1..Len(courses') : CourseFields(Collection'[k]) # CourseFields(OtherCollection[i]))
                   => ~HasCourseRow(coursesFile', OtherCollection[i])

\* C15: with two instances that loaded the same stores, after one of them
\* added a course, any successful mutating call of the other leaves in the
\* stores exactly the rows of the caller's own collection: the course the
\* first one added has no row any more, and neither instance sees an error.
C15_LastWriterWins == [][LostUpdateStep]_vars

\* both instances loaded the same course; the waiting one then added a
\* second course, which the calling one never held; the calling one has just
\* added an assignment, and the course store has no row for that course
C15_Witness ==
    /\ parked # <<>>
    /\ result.op = "add_assignment" /\ result.wrote /\ result.status = "ok"
    /\ Len(heap) = 1 /\ courses = <<1>> /\ Len(OtherCollection) = 2
    /\ CourseFields(OtherCollection[1]) = CourseFields(Collection[1])
    /\ CourseFields(OtherCollection[2]) # CourseFields(Collection[1])
    /\ ~HasCourseRow(coursesFile, OtherCollection[2])

PctIn0To100(p) == p.d > 0 /\ p.n >= 0 /\ p.n <= 100 * p.d

\* C16: in every state reached from empty stores through the operations of
\* the GradeCalculator, every assignment held by a course has max_points > 0
\* and 0 <= score <= max_points, so the percentage of every assignment and
\* the grade percentage of every course lie between 0 and 100 inclusive.
C16_ScoresWithinLimits ==
    \A r \in 1..Len(heap) :
        /\ \A j \in 1..Len(heap[r].assignments) :
               LET a == heap[r].assignments[j] IN
               /\ a.max_points.h > 0
               /\ 0 <= a.score.h /\ a.score.h <= a.max_points.h
               /\ PctIn0To100(get_percentage(a))
        /\ PctIn0To100(calculate_grade(heap[r]))

\* a course holds an assignment with score 0 and one with score = max_points
\* = 0.5, the second just added
C16_Witness ==
    /\ result.op = "add_assignment" /\ result.status = "ok"
    /\ Len(heap[result.ret.course].assignments) = 2
    /\ heap[result.ret.course].assignments[1].score.h = 0
    /\ ReturnedAssignment.score = Float_(1) /\ ReturnedAssignment.max_points = Float_(1)
    /\ PctIs(get_percentage(ReturnedAssignment), 100, 1)

\* the Assignment object h is in the list of the Course object c
InListOf(c, h) == IsHeld(h) /\ h.course = c
DeleteAssignmentFrame(c, h) ==
    /\ result'.status = "ok"
    /\ courses' = courses
    /\ Len(heap') = Len(heap)
    /\ \A r \in 1..Len(heap) : r # c => heap'[r] = heap[r]
    /\ heap'[c].course_id = heap[c].course_id /\ heap'[c].name = heap[c].name
    /\ IF InListOf(c, h)
       THEN /\ Len(heap'[c].assignments) = Len(heap[c].assignments) - 1
            /\ \A j \in 1..Len(heap'[c].assignments) :
                   heap'[c].assignments[j] =
                       heap[c].assignments[IF j < h.pos THEN j ELSE j + 1]
       ELSE heap' = heap
    /\ result'.wrote
    /\ StoresReflectMemory'

\* C17: delete_assignment(course, assignment) removes the assignment from the
\* course's list and keeps the order of the others, leaves every other course
\* and the collection unchanged and rewrites both stores; when the
\* assignment is not in the course's list the memory is unchanged, no error
\* is raised and both stores are rewritten all the same.
C17_DeleteAssignmentFrame ==
    [][result'.op = "delete_assignment" =>
          \A c \in 1..Len(heap), h \in Handles :
              DeleteAssignment(c, h) => DeleteAssignmentFrame(c, h)]_vars

\* delete_assignment was just called for an assignment that was not in the
\* course's list: every Assignment object the bound allows is still held.
\* The process had loaded them, and the rewritten rows read "8.0", "10.0"
\* where the loaded store read "8", "10".
C17_Witness ==
    /\ result.op = "delete_assignment" /\ result.wrote
    /\ Len(AllHeld) = MaxAsgObjs
    /\ Len(CollectionAssignments) = MaxAsgObjs
    /\ \A j \in 1..Len(AllHeld) : ~AllHeld[j].score.isInt
    /\ \A i \in 1..Len(RowsOf(assignmentsFile)) : "." \in Range(RowsOf(assignmentsFile)[i][4])

\* the rows of the course store whose course_id is id
CourseRowsWithId(id) == {i \in 1..Len(RowsOf(coursesFile)) : RowsOf(coursesFile)[i][1] = id}

\* C18: after every completed save every row of the assignment store has the
\* course_id of exactly one row of the course store, and in memory the
\* course_id of every assignment is the course_id of the course whose list
\* holds it.
C18_ReferentialIntegrity ==
    /\ result.wrote =>
           \A j \in 1..Len(RowsOf(assignmentsFile)) :
               Cardinality(CourseRowsWithId(RowsOf(assignmentsFile)[j][2])) = 1
    /\ \A r \in 1..Len(heap) : \A j \in 1..Len(heap[r].assignments) :
           heap[r].assignments[j].course_id = heap[r].course_id

\* a save has just completed in a process that had loaded the stores: an
\* assignment was added to the second of two courses, the first holds a
\* loaded one, and the assignment store has a row for each
C18_Witness ==
    /\ AddedAssignment /\ result.wrote
    /\ Len(courses) = 2 /\ result.ret.course = courses[2]
    /\ \A i \in 1..2 : Len(Collection[i].assignments) = 1
    /\ ~Collection[1].assignments[1].score.isInt
    /\ Len(RowsOf(assignmentsFile)) = 2

\* what constructing the DataManager did to one store
Bootstrapped(before, after, header) ==
    /\ after.exists
    /\ IF before.exists
       THEN after = before
       ELSE /\ Len(after.lines) = 1
            /\ ReadRow(after.lines[1]) = [i \in 1..Len(header) |-> <<header[i]>>]
    /\ create_file_if_needed(after, header) = after
BootStep ==
    (result'.op = "init" /\ result'.status = "ok") =>
        /\ Bootstrapped(coursesFile, coursesFile', CourseHeader)
        /\ Bootstrapped(assignmentsFile, assignmentsFile', AssignmentHeader)
        /\ Running => CollectionEq(Collection', Collection)
        /\ ~Running => CollectionEq(Collection', <<>>)

\* C19: constructing the DataManager creates each store with only its header
\* row when the store is absent and leaves an existing store as it is, so a
\* GradeCalculator constructed after any sequence of mutations loads exactly
\* the collection the one before it last saved.
C19_BootstrapIdempotent == [][BootStep]_vars

\* a second GradeCalculator has just loaded one course with two assignments
\* from stores that a first one wrote
C19_Witness ==
    /\ JustLoaded
    /\ Len(courses) = 1
    /\ Len(Collection[1].assignments) = 2
    /\ Len(RowsOf(coursesFile)) = 1 /\ Len(RowsOf(assignmentsFile)) = 2
    /\ \E i \in 1..2 : "8" \in Range(RowsOf(assignmentsFile)[i][4])

====
